---- MODULE Spec2Model ----
\* A model of the real-time media session core of the VideoConferencing client:
\* the in-memory signaling relay (joinSignalingChannel / sendSignal), the media
\* acquisition fallback ladder (initLocalStream / getMediaStream) and the
\* useWebRTC hook (participants registry, toggles, screen share, peers).
\* Source of authority: src/unnamed/part_009 (the useWebRTC hook, JS version).
EXTENDS Integers, Sequences, FiniteSets, Bags, TLC

\* ---------------------------------------------------------------- bounds
MaxOps == 3          \* user operations and faults in a session run
MaxStreams == 2      \* capture sessions (camera or display) one client obtains
MaxPeers == 1        \* Peer objects one client creates
MaxRePeers == 2      \* Peer objects one client creates where a client registers again
MaxPending == 2      \* overlapping awaits of one kind in one client
MaxCycles == 2       \* reacquisitions started by the liveness check in an acquisition run
MaxMsgs == 2         \* messages sent in a relay run
MaxTime == 60000     \* the relay clock stops at or after this time (ms)
TickStep == 30000    \* granularity of the clock (ms)

\* ---------------------------------------------------------------- constants
TTL == 60000         \* "expires: Date.now() + 60000"

Rooms == {"r1", "r2"}
SendRooms == {"r1"}  \* relay runs send into one room; the other only holds callbacks
Ids == {"a", "b"}
NoId == "none"       \* an absent receiverId / a callback without senderId

\* The callbacks of a relay run: two share the id "a", as the hook registers
\* signalCallback and handleSignals under one userId.
RelayCallbacks ==
  { [fn |-> "f1", senderId |-> "a"], [fn |-> "f2", senderId |-> "a"],
    [fn |-> "f3", senderId |-> "b"] }
\* Who joins which room in a relay run.
RoomCallbacks(r) ==
  IF r \in SendRooms THEN RelayCallbacks
  ELSE { cb \in RelayCallbacks : cb.fn \in {"f2", "f3"} }

VARIABLES
  SIGNALING_CHANNELS,   \* room -> set of registered callbacks
  PENDING_MESSAGES,     \* room -> sequence of queued messages
  now,                  \* Date.now()
  msgs,                 \* history: every message handed to sendSignal, with the time of
                        \* the first later join of a callback that has the receiver's id
  calls,                \* history: the bag of callback invocations
  emptied               \* history: message ids whose room was emptied by an unsubscribe while they were queued

relayVars == <<SIGNALING_CHANNELS, PENDING_MESSAGES, now, msgs, calls, emptied>>

VARIABLES
  supported,            \* navigator.mediaDevices.getUserMedia exists
  streamInitAttempts,   \* the ref counting initLocalStream runs (never reset)
  pc,                   \* where the initialization is waiting
  frame,                \* options of the getMediaStream call in progress
  acqStream,            \* the capture session initLocalStream obtained, or NoSession
  acqError,             \* the hook's error state
  backoffTime,          \* the delay of the last retry timer scheduled, in ms (0: none)
  isInitializing,       \* the hook's isInitializing state
  nReq,                 \* history: getUserMedia calls issued in this initialization cycle
  nReqRun,              \* history: getUserMedia calls issued by the current initLocalStream run
  tiers,                \* history: the request kinds issued in this cycle
  orderOK,              \* history: the tiers were first requested in ladder order
  onlyBusy,             \* history: every request of this cycle failed DeviceBusy/OverConstrained
  leaked,               \* history: sessions obtained and dropped without stopping their tracks
  cycles                \* history: reacquisitions started

acqVars == <<supported, streamInitAttempts, pc, frame, acqStream, acqError, backoffTime,
             isInitializing, nReq, nReqRun, tiers, orderOK, onlyBusy, leaked, cycles>>

VARIABLES
  hook,                 \* client -> the state, refs and objects of its useWebRTC hook
  peerHasSenders,       \* the Peer implementation exposes _senders
  peerBudget,           \* the Peer objects a client may create in this session
  prev,                 \* history: client -> its last operation and what it saw
  ops                   \* history: user operations and faults so far

sessVars == <<hook, peerHasSenders, peerBudget, prev, ops>>

vars == <<relayVars, acqVars, sessVars>>
nonRelayVars == <<acqVars, sessVars>>
nonAcqVars == <<relayVars, sessVars>>

\* ---------------------------------------------------------------- helpers
Range(s) == { s[i] : i \in 1..Len(s) }

\* An arbitrary but fixed enumeration of a finite set (Set.forEach order).
RECURSIVE SetToSeq(_)
SetToSeq(S) ==
  IF S = {} THEN <<>>
  ELSE LET x == CHOOSE y \in S : TRUE IN <<x>> \o SetToSeq(S \ {x})

\* ================================================================ relay
\* sendSignal, lines 287-298: the callbacks a message is handed to.
MatchesMutSender(cb, message) ==
  message.receiverId = NoId \/ message.receiverId = cb.senderId

Matches(cb, message) ==
  /\ message.senderId # cb.senderId
  /\ (message.receiverId = NoId \/ message.receiverId = cb.senderId)

SendTargets(channels, roomId, message) ==
  { cb \in channels[roomId] : Matches(cb, message) }

\* sendSignal, lines 302-323: queue an undelivered directed message, then drop
\* the expired ones.
PendingAfterSend(pend, roomId, message, delivered, t) ==
  IF ~delivered /\ message.receiverId # NoId
  THEN LET queued == Append(pend[roomId],
                            [id |-> message.id, senderId |-> message.senderId,
                             receiverId |-> message.receiverId,
                             type |-> message.type, body |-> message.body,
                             flag |-> message.flag,
                             timestamp |-> t, expires |-> t + TTL])
       IN [pend EXCEPT ![roomId] = SelectSeq(queued, LAMBDA x : x.expires > t)]
  ELSE pend

\* joinSignalingChannel, lines 257-260: the queued messages flushed to a
\* joining callback (no expiry test is made here).
PendingForPeer(pend, roomId, cb) ==
  IF cb.senderId # NoId
  THEN SelectSeq(pend[roomId],
                 LAMBDA x : x.receiverId = cb.senderId \/ x.receiverId = NoId)
  ELSE <<>>

\* joinSignalingChannel, lines 268-271: what stays queued after the flush.
PendingAfterJoinMutKeep(pend, roomId, cb) == pend

PendingAfterJoin(pend, roomId, cb) ==
  IF Len(PendingForPeer(pend, roomId, cb)) > 0
  THEN [pend EXCEPT ![roomId] =
          SelectSeq(pend[roomId],
                    LAMBDA x : ~(x.receiverId = cb.senderId \/ x.receiverId = NoId))]
  ELSE pend

\* The unsubscribe function returned by joinSignalingChannel, lines 275-281.
ChannelsAfterLeave(channels, roomId, cb) ==
  [channels EXCEPT ![roomId] = @ \ {cb}]

PendingAfterLeave(channels, pend, roomId, cb) ==
  IF cb \in channels[roomId] /\ channels[roomId] \ {cb} = {}
  THEN [pend EXCEPT ![roomId] = <<>>]
  ELSE pend

\* ---------------------------------------------------------------- relay run
\* One invocation of callback cb with message id m.
Call(m, cb, via) == [m |-> m, fn |-> cb.fn, to |-> cb.senderId, via |-> via]

RECURSIVE AddCalls(_, _)
AddCalls(bag, evs) ==
  IF evs = <<>> THEN bag
  ELSE AddCalls(bag (+) SetToBag({Head(evs)}), Tail(evs))

RelayInit ==
  /\ SIGNALING_CHANNELS = [r \in Rooms |-> {}]
  /\ PENDING_MESSAGES = [r \in Rooms |-> <<>>]
  /\ now = 0
  /\ msgs = <<>>
  /\ calls = EmptyBag
  /\ emptied = {}

joinSignalingChannel(roomId, cb) ==
  /\ SIGNALING_CHANNELS' = [SIGNALING_CHANNELS EXCEPT ![roomId] = @ \cup {cb}]
  /\ LET flushed == PendingForPeer(PENDING_MESSAGES, roomId, cb)
     IN calls' = AddCalls(calls, [i \in 1..Len(flushed) |-> Call(flushed[i].id, cb, "join")])
  /\ PENDING_MESSAGES' = PendingAfterJoin(PENDING_MESSAGES, roomId, cb)
  /\ msgs' = [i \in DOMAIN msgs |->
               IF /\ msgs[i].room = roomId /\ msgs[i].receiverId = cb.senderId
                  /\ msgs[i].queued /\ msgs[i].joinedAt = -1
               THEN [msgs[i] EXCEPT !.joinedAt = now]
               ELSE msgs[i]]
  /\ UNCHANGED <<now, emptied, nonRelayVars>>

leaveSignaling(roomId, cb) ==
  /\ cb \in SIGNALING_CHANNELS[roomId]
  /\ SIGNALING_CHANNELS' = ChannelsAfterLeave(SIGNALING_CHANNELS, roomId, cb)
  /\ PENDING_MESSAGES' = PendingAfterLeave(SIGNALING_CHANNELS, PENDING_MESSAGES, roomId, cb)
  /\ emptied' = emptied \cup
       { m.id : m \in { x \in Range(PENDING_MESSAGES[roomId]) :
                          PENDING_MESSAGES'[roomId] = <<>> } }
  /\ UNCHANGED <<now, msgs, calls, nonRelayVars>>

sendSignal(roomId, senderId, receiverId) ==
  /\ Len(msgs) < MaxMsgs
  /\ LET message == [id |-> Len(msgs) + 1, senderId |-> senderId,
                     receiverId |-> receiverId, type |-> "signal",
                     body |-> "x", flag |-> FALSE]
         targets == SendTargets(SIGNALING_CHANNELS, roomId, message)
     IN /\ msgs' = Append(msgs, [id |-> message.id, room |-> roomId,
                                 senderId |-> senderId, receiverId |-> receiverId,
                                 sentAt |-> now,
                                 queued |-> /\ receiverId # NoId
                                            /\ \A cb \in SIGNALING_CHANNELS[roomId] :
                                                  cb.senderId # receiverId,
                                 joinedAt |-> -1])
        /\ calls' = AddCalls(calls, LET ts == SetToSeq(targets)
                                     IN [i \in 1..Len(ts) |-> Call(message.id, ts[i], "send")])
        /\ PENDING_MESSAGES' =
             PendingAfterSend(PENDING_MESSAGES, roomId, message, targets # {}, now)
  /\ UNCHANGED <<SIGNALING_CHANNELS, now, emptied, nonRelayVars>>

Tick ==
  /\ now < MaxTime
  /\ now' = now + TickStep
  /\ UNCHANGED <<SIGNALING_CHANNELS, PENDING_MESSAGES, msgs, calls, emptied, nonRelayVars>>

RelayNext ==
  \/ \E r \in Rooms : \E cb \in RoomCallbacks(r) : joinSignalingChannel(r, cb)
  \/ \E r \in Rooms : \E cb \in RoomCallbacks(r) : leaveSignaling(r, cb)
  \/ \E r \in SendRooms, s \in Ids, d \in Ids \cup {NoId} : sendSignal(r, s, d)
  \/ Tick

\* ================================================================ acquisition
\* The outcomes of one navigator.mediaDevices.getUserMedia call.
Outcomes == {"ok", "NotAllowedError", "NotFoundError", "NotReadableError",
             "OverconstrainedError", "AbortError"}
NoSession == [a |-> FALSE, v |-> FALSE]
NoFrame == [tryAudioOnly |-> FALSE, tryVideoOnly |-> FALSE, retryAttempt |-> 0]

\* The fallback ladder of the specification, by request kind: the combined
\* requests (exact 640x480, basic, detailed) are the nominal tier, the
\* 320x240 request is the reduced tier.
TierOf(kind) ==
  CASE kind \in {"exact", "basic", "detailed"} -> 1
    [] kind = "lower" -> 2
    [] kind = "audio" -> 3
    [] kind = "video" -> 4

\* getMediaStream lines 364-369: the cap on retryAttempt.
RetryCapMutLoose(retryAttempt) == retryAttempt > 4

RetryCap(retryAttempt) == retryAttempt > 3

\* A guard that lets the third and fourth runs schedule a retry.
RetryAllowedMutLoose(attempts) == attempts < 5

\* initLocalStream line 749: whether a backoff retry is scheduled.
RetryAllowed(attempts) == attempts < 3

\* A backoff that starts at one second.
BackoffTimeMutBase(attempts) == 2^(attempts - 1) * 1000

\* initLocalStream line 750: the delay of the backoff timer, in ms, from the
\* count of initLocalStream runs so far.
BackoffTime(attempts) == 2^attempts * 1000

\* Entry of getMediaStream(options), lines 347-409: what it does first.
GMS(tryAudioOnly, tryVideoOnly, retryAttempt) ==
  LET f == [tryAudioOnly |-> tryAudioOnly, tryVideoOnly |-> tryVideoOnly,
            retryAttempt |-> retryAttempt]
  IN IF ~supported THEN [do |-> "throw", err |-> "unsupported"]
     ELSE IF RetryCap(retryAttempt) THEN [do |-> "throw", err |-> "maxretry"]
     ELSE IF tryAudioOnly THEN [do |-> "request", kind |-> "audio", frame |-> f]
     ELSE IF tryVideoOnly THEN [do |-> "request", kind |-> "video", frame |-> f]
     ELSE [do |-> "request", kind |-> "basic", frame |-> f]

\* The catch block of getMediaStream, lines 451-537, for an audio-only or
\* video-only request that failed with error e.
CatchSingle(f, e) ==
  CASE e = "NotAllowedError" -> [do |-> "throw", err |-> "denied"]
    [] e = "NotFoundError" -> [do |-> "throw", err |-> "notfound"]
    [] e = "NotReadableError" ->
         IF ~f.tryAudioOnly /\ ~f.tryVideoOnly THEN GMS(TRUE, FALSE, f.retryAttempt + 1)
         ELSE IF f.tryAudioOnly THEN GMS(FALSE, TRUE, f.retryAttempt + 1)
         ELSE [do |-> "throw", err |-> "inuse"]
    [] e = "OverconstrainedError" -> [do |-> "request", kind |-> "lower", frame |-> f]
    [] OTHER ->
         IF ~f.tryAudioOnly /\ ~f.tryVideoOnly THEN GMS(TRUE, FALSE, f.retryAttempt + 1)
         ELSE IF f.tryAudioOnly THEN GMS(FALSE, TRUE, f.retryAttempt + 1)
         ELSE [do |-> "throw", err |-> "raw"]

\* An initLocalStream that reports no message.
ErrorMessageMutNull(err) == "none"

\* errorMessage, lines 735-746: the message of the Error that was thrown, or
\* the default text when the error has none (here: the browser's own error,
\* rethrown at line 536).
ErrorMessage(err) == IF err = "raw" THEN "default" ELSE err

\* What a step does with the outcome of its continuation: issue the next
\* request, end initLocalStream with a session, or end it in its catch block
\* (lines 732-763).
Finish(next) ==
  /\ CASE next.do = "request" ->
           /\ pc' = next.kind
           /\ frame' = next.frame
           /\ nReq' = nReq + 1
           /\ nReqRun' = nReqRun + 1
           /\ tiers' = tiers \cup {TierOf(next.kind)}
           /\ orderOK' = (orderOK /\ \A t \in tiers : t <= TierOf(next.kind)
                                   \/ TierOf(next.kind) \in tiers)
           /\ UNCHANGED <<acqStream, acqError, backoffTime, isInitializing>>
       [] next.do = "ok" ->
           /\ pc' = "ready"
           /\ acqStream' = [a |-> next.a, v |-> next.v]
           /\ acqError' = "none"
           /\ isInitializing' = FALSE
           /\ UNCHANGED <<frame, backoffTime, nReq, nReqRun, tiers, orderOK>>
       [] next.do = "throw" ->
           /\ acqError' = ErrorMessage(next.err)
           /\ pc' = IF RetryAllowed(streamInitAttempts) THEN "backoff" ELSE "failed"
           /\ backoffTime' = IF RetryAllowed(streamInitAttempts)
                             THEN BackoffTime(streamInitAttempts) ELSE backoffTime
           /\ isInitializing' = FALSE
           /\ UNCHANGED <<frame, acqStream, nReq, nReqRun, tiers, orderOK>>
  /\ UNCHANGED <<supported, cycles>>

\* initLocalStream lines 618-640: count the run and issue the exact request.
\* Without navigator.mediaDevices the call throws at once and getMediaStream
\* reports the missing API.
BeginRun ==
  /\ streamInitAttempts' = streamInitAttempts + 1
  /\ IF supported
     THEN /\ pc' = "exact"
          /\ isInitializing' = TRUE
          /\ nReq' = nReq + 1
          /\ nReqRun' = 1
          /\ tiers' = tiers \cup {TierOf("exact")}
          /\ orderOK' = (orderOK /\ \A t \in tiers : t <= TierOf("exact")
                                  \/ TierOf("exact") \in tiers)
          /\ UNCHANGED <<acqError, backoffTime>>
     ELSE /\ acqError' = ErrorMessage("unsupported")
          /\ pc' = IF RetryAllowed(streamInitAttempts') THEN "backoff" ELSE "failed"
          /\ backoffTime' = IF RetryAllowed(streamInitAttempts')
                            THEN BackoffTime(streamInitAttempts') ELSE backoffTime
          /\ isInitializing' = FALSE
          /\ nReqRun' = 0
          /\ UNCHANGED <<nReq, tiers, orderOK>>
  /\ UNCHANGED <<supported, frame, acqStream, onlyBusy, leaked>>

AcqStart ==
  /\ streamInitAttempts = 0
  /\ pc = "idle"
  /\ frame = NoFrame
  /\ acqStream = NoSession
  /\ acqError = "none"
  /\ backoffTime = 0
  /\ isInitializing = TRUE
  /\ nReq = 0 /\ nReqRun = 0 /\ tiers = {} /\ orderOK = TRUE /\ onlyBusy = TRUE
  /\ leaked = 0
  /\ cycles = 0

Busy(e) == e \in {"NotReadableError", "OverconstrainedError"}

\* The init effect, line 777: the first initLocalStream run.
InitEffect ==
  /\ pc = "idle"
  /\ BeginRun
  /\ UNCHANGED <<cycles, nonAcqVars>>

\* initLocalStream lines 631-652: the exact-constraints request settles.
ExactSettles(e) ==
  /\ pc = "exact"
  /\ onlyBusy' = (onlyBusy /\ Busy(e))
  /\ IF e = "ok"
     THEN Finish([do |-> "ok", a |-> TRUE, v |-> TRUE])
     ELSE Finish(GMS(streamInitAttempts > 1, streamInitAttempts > 2,
                     streamInitAttempts - 1))
  /\ UNCHANGED <<streamInitAttempts, leaked, nonAcqVars>>

\* getMediaStream lines 417-433: the basic combined request settles.
BasicSettles(e) ==
  /\ pc = "basic"
  /\ onlyBusy' = (onlyBusy /\ Busy(e))
  /\ IF e = "ok"
     THEN Finish([do |-> "ok", a |-> TRUE, v |-> TRUE])
     ELSE Finish([do |-> "request", kind |-> "detailed", frame |-> frame])
  /\ UNCHANGED <<streamInitAttempts, leaked, nonAcqVars>>

\* getMediaStream lines 429-441: the detailed combined request settles; any
\* error falls back to audio-only.
DetailedSettles(e) ==
  /\ pc = "detailed"
  /\ onlyBusy' = (onlyBusy /\ Busy(e))
  /\ IF e = "ok"
     THEN Finish([do |-> "ok", a |-> TRUE, v |-> TRUE])
     ELSE Finish(GMS(TRUE, FALSE, frame.retryAttempt + 1))
  /\ UNCHANGED <<streamInitAttempts, leaked, nonAcqVars>>

\* getMediaStream lines 395-408 and 451-537: the audio-only or video-only
\* request settles.
SingleSettles(e) ==
  /\ pc \in {"audio", "video"}
  /\ onlyBusy' = (onlyBusy /\ Busy(e))
  /\ IF e = "ok"
     THEN Finish([do |-> "ok", a |-> pc = "audio", v |-> pc = "video"])
     ELSE Finish(CatchSingle(frame, e))
  /\ UNCHANGED <<streamInitAttempts, leaked, nonAcqVars>>

\* getMediaStream lines 503-518: the reduced-quality request settles. Its
\* result is assigned to `stream`, which is declared in the try block and
\* not in scope here: in module (strict) code the assignment throws a
\* ReferenceError after the request resolved, the inner catch takes it, and
\* the session obtained is dropped with its tracks live.
LowerSettles(e) ==
  /\ pc = "lower"
  /\ onlyBusy' = (onlyBusy /\ Busy(e))
  /\ leaked' = IF e = "ok" THEN leaked + 1 ELSE leaked
  /\ Finish(GMS(TRUE, FALSE, frame.retryAttempt + 1))
  /\ UNCHANGED <<streamInitAttempts, nonAcqVars>>

\* initLocalStream lines 753-757: the backoff timer fires.
RetryFires ==
  /\ pc = "backoff"
  /\ BeginRun
  /\ UNCHANGED <<cycles, nonAcqVars>>

\* initLocalStream lines 693-728: a track of the session ended, the liveness
\* check stopped the session and its 1 s timer runs initLocalStream again.
\* A new initialization cycle starts.
Reacquire ==
  /\ pc = "ready"
  /\ cycles < MaxCycles
  /\ cycles' = cycles + 1
  /\ isInitializing' = TRUE
  /\ streamInitAttempts' = streamInitAttempts + 1
  /\ pc' = "exact"
  /\ nReq' = 1 /\ nReqRun' = 1
  /\ tiers' = {TierOf("exact")} /\ orderOK' = TRUE /\ onlyBusy' = TRUE
  /\ acqStream' = NoSession
  /\ UNCHANGED <<supported, frame, acqError, backoffTime, leaked, nonAcqVars>>

AcqNext ==
  \/ InitEffect
  \/ \E e \in Outcomes : ExactSettles(e)
  \/ \E e \in Outcomes : BasicSettles(e)
  \/ \E e \in Outcomes : DetailedSettles(e)
  \/ \E e \in Outcomes : SingleSettles(e)
  \/ \E e \in Outcomes : LowerSettles(e)
  \/ RetryFires
  \/ Reacquire

\* ================================================================ session
\* Two useWebRTC hooks in one room, sharing the relay above.
Room == "r1"
Clients == Ids
Sharers == {"a"}     \* the clients whose props, devices and screen share vary; the
                     \* others use the default props and get full camera sessions
Absent == "z"        \* an id that no client of the room has
Props == BOOLEAN \X BOOLEAN   \* <<initialAudioEnabled, initialVideoEnabled>>

Cb(fn, c) == [fn |-> fn, senderId |-> c]

Message(type, senderId, receiverId, body, flag) ==
  [id |-> 0, type |-> type, senderId |-> senderId, receiverId |-> receiverId,
   body |-> body, flag |-> flag]

\* The getMediaStream call a toggle made to add a missing track: the kind it
\* is for, the request that is pending and the options of the call.
NoAdd == [for |-> "none", pc |-> "none", frame |-> NoFrame]

\* The hook's state and refs after the first render, lines 333-344.
NewHook(ia, iv) ==
  [ life |-> "new",
    initialAudioEnabled |-> ia, initialVideoEnabled |-> iv,
    participants |-> <<>>,
    isMicOn |-> ia, isCameraOn |-> iv, isScreenSharing |-> FALSE,
    error |-> "none", isInitializing |-> TRUE,
    peerConnections |-> [p \in Clients |-> 0],
    screenStream |-> 0, streamInitAttempts |-> 0, localStreamRef |-> 0,
    \* what the callbacks and effects of the last render captured
    rMic |-> ia, rCam |-> iv, rSS |-> FALSE, effDep |-> 0, peerEffectOn |-> FALSE,
    \* the objects this client created
    streams |-> <<>>, tracks |-> <<>>, peers |-> <<>>,
    \* asynchronous work in flight
    init |-> "idle", healthCheck |-> FALSE,
    dispPending |-> <<>>, startPending |-> <<>>, stopPending |-> <<>>,
    add |-> NoAdd ]

\* ---------------------------------------------------------------- media objects
AudioOf(h, s) == IF s = 0 THEN 0 ELSE h.streams[s].a
VideoOf(h, s) == IF s = 0 THEN 0 ELSE h.streams[s].v
TracksOf(h, s) == IF s = 0 THEN {} ELSE {h.streams[s].a, h.streams[s].v} \ {0}

\* cleanupStream / stream.getTracks().forEach(track.stop), lines 767-774, 1137.
Stop(h, s) ==
  [h EXCEPT !.tracks = [t \in DOMAIN h.tracks |->
                          IF t \in TracksOf(h, s)
                          THEN [h.tracks[t] EXCEPT !.live = FALSE]
                          ELSE h.tracks[t]]]

\* A capture session granted by getUserMedia / getDisplayMedia.
\* tier: the video constraints last applied to the track with applyConstraints
\* (0 none, 1 the 640x480 set, 2 the 1280x720 set); upgrade: the five-second
\* timer of optimizeMediaTracks is pending for it.
NewTrack(kind) ==
  [kind |-> kind, enabled |-> TRUE, live |-> TRUE, onended |-> FALSE,
   tier |-> 0, upgrade |-> FALSE]

Capture(h, src, a, v) ==
  LET n == Len(h.tracks)
      ai == IF a THEN n + 1 ELSE 0
      vi == IF v THEN (IF a THEN n + 2 ELSE n + 1) ELSE 0
  IN [h EXCEPT !.tracks = (@ \o (IF a THEN <<NewTrack("audio")>> ELSE <<>>))
                             \o (IF v THEN <<NewTrack("video")>> ELSE <<>>),
               !.streams = Append(@, [src |-> src, a |-> ai, v |-> vi])]

\* optimizeMediaTracks(stream) up to its return, lines 541-604: the first
\* video constraints are applied to the enabled video track and its upgrade
\* timer is started.
OptimizeMediaTracks(h, s) ==
  LET v == VideoOf(h, s)
  IN IF v # 0 /\ h.tracks[v].enabled
     THEN [h EXCEPT !.tracks[v].tier = 1, !.tracks[v].upgrade = TRUE]
     ELSE h

\* ---------------------------------------------------------------- participants
\* "{ ...p, field: value }"
Merge(p, upd) == [k \in DOMAIN p |-> IF k \in DOMAIN upd THEN upd[k] ELSE p[k]]

MapLocal(ps, upd) ==
  [i \in DOMAIN ps |-> IF ps[i].isCurrentUser THEN Merge(ps[i], upd) ELSE ps[i]]

MapId(ps, id, upd) ==
  [i \in DOMAIN ps |-> IF ps[i].id = id THEN Merge(ps[i], upd) ELSE ps[i]]

FilterId(ps, id) == SelectSeq(ps, LAMBDA p : p.id # id)

LocalEntries(ps) == { i \in DOMAIN ps : ps[i].isCurrentUser }

\* ---------------------------------------------------------------- peers
\* new Peer({initiator, stream}) and peerConnections.set, lines 1259-1409.
CreatePeer(h, peerId, initiator, stream, incomingSignal) ==
  LET peer == [peerId |-> peerId, initiator |-> initiator,
               destroyed |-> FALSE, closed |-> FALSE,
               phase |-> IF ~initiator /\ incomingSignal = "offer"
                         THEN "haveOffer" ELSE "new",
               video |-> VideoOf(h, stream), gotStream |-> FALSE]
  IN [h EXCEPT !.peers = Append(@, peer),
               !.peerConnections[peerId] = Len(h.peers) + 1]

\* A Peer that drops the answer it is given.
PeerSignalMutIgnore(h, i, signal) == h

\* peer.signal(signal) on an existing Peer.
PeerSignal(h, i, signal) ==
  IF ~h.peers[i].destroyed /\ h.peers[i].phase = "offered" /\ signal = "answer"
  THEN [h EXCEPT !.peers[i].phase = "stable"]
  ELSE h

\* peerConnections.current.forEach(({peer}) => peer.destroy())
DestroyAll(h) ==
  [h EXCEPT !.peers = [i \in DOMAIN h.peers |->
                         IF \E p \in Clients : h.peerConnections[p] = i
                         THEN [h.peers[i] EXCEPT !.destroyed = TRUE]
                         ELSE h.peers[i]]]

Clear(h) == [h EXCEPT !.peerConnections = [p \in Clients |-> 0]]

\* sender.replaceTrack(track) on every stored connection that has a video
\* sender, lines 1106-1112 and 1161-1168.
ReplaceVideo(h, hasSenders, track) ==
  [h EXCEPT !.peers = [i \in DOMAIN h.peers |->
                         IF /\ \E p \in Clients : h.peerConnections[p] = i
                            /\ hasSenders /\ h.peers[i].video # 0 /\ track # 0
                         THEN [h.peers[i] EXCEPT !.video = track]
                         ELSE h.peers[i]]]

\* ---------------------------------------------------------------- handlers
\* A signalCallback that also registers the announcing participant.
SignalCallbackMutRegisters(h, c, message) ==
  IF message.type = "new-peer" /\ message.senderId # c
  THEN [CreatePeer(h, message.senderId, TRUE, h.localStreamRef, "none") EXCEPT
          !.participants =
             Append(@, [id |-> message.senderId, name |-> "Peer",
                        videoEnabled |-> TRUE, audioEnabled |-> TRUE,
                        isScreenSharing |-> FALSE, isCurrentUser |-> FALSE,
                        stream |-> 0])]
  ELSE IF message.type = "signal" /\ message.receiverId = c
  THEN IF h.peerConnections[message.senderId] # 0
       THEN PeerSignal(h, h.peerConnections[message.senderId], message.body)
       ELSE IF message.body = "offer"
            THEN CreatePeer(h, message.senderId, FALSE, h.localStreamRef, "offer")
            ELSE h
  ELSE h

\* signalCallback, lines 1213-1242.
SignalCallback(h, c, message) ==
  IF message.type = "new-peer"
  THEN IF message.senderId # c
       THEN CreatePeer(h, message.senderId, TRUE, h.localStreamRef, "none")
       ELSE h
  ELSE IF message.type = "signal" /\ message.receiverId = c
  THEN IF h.peerConnections[message.senderId] # 0
       THEN PeerSignal(h, h.peerConnections[message.senderId], message.body)
       ELSE IF message.body = "offer"
            THEN CreatePeer(h, message.senderId, FALSE, h.localStreamRef, "offer")
            ELSE h
  ELSE h

\* handleSignals, lines 1450-1505.
HandleSignals(h, c, message) ==
  IF message.type = "remove-participant" /\ message.body = c
  THEN Clear(DestroyAll(h))
  ELSE IF message.type = "audio-state"
  THEN [h EXCEPT !.participants =
          MapId(@, message.senderId, [audioEnabled |-> message.flag])]
  ELSE IF message.type = "video-state"
  THEN [h EXCEPT !.participants =
          MapId(@, message.senderId, [videoEnabled |-> message.flag])]
  ELSE IF message.type = "screen-share-state"
  THEN [h EXCEPT !.participants =
          MapId(@, message.senderId, [isScreenSharing |-> message.flag])]
  ELSE IF message.type = "name-update"
  THEN [h EXCEPT !.participants =
          MapId(@, message.senderId, [name |-> message.body])]
  ELSE h

Handle(h, cb, message) ==
  IF cb.fn = "signalCallback" THEN SignalCallback(h, cb.senderId, message)
  ELSE HandleSignals(h, cb.senderId, message)

\* ---------------------------------------------------------------- the relay, as the hooks use it
World == [h |-> hook, ch |-> SIGNALING_CHANNELS, pend |-> PENDING_MESSAGES]

RECURSIVE Deliver(_, _, _)
Deliver(h, cbs, message) ==
  IF cbs = <<>> THEN h
  ELSE Deliver([h EXCEPT ![Head(cbs).senderId] = Handle(@, Head(cbs), message)],
               Tail(cbs), message)

RECURSIVE Flush(_, _, _)
Flush(h, cb, messages) ==
  IF messages = <<>> THEN h
  ELSE Flush([h EXCEPT ![cb.senderId] = Handle(@, cb, Head(messages))],
             cb, Tail(messages))

\* sendSignal(roomId, message), lines 284-324.
Send(w, message) ==
  LET targets == SendTargets(w.ch, Room, message)
  IN [w EXCEPT !.h = Deliver(w.h, SetToSeq(targets), message),
               !.pend = PendingAfterSend(w.pend, Room, message, targets # {}, now)]

\* joinSignalingChannel(roomId, callback), lines 250-273.
Join(w, cb) ==
  [w EXCEPT !.ch = [w.ch EXCEPT ![Room] = @ \cup {cb}],
            !.h = Flush(w.h, cb, PendingForPeer(w.pend, Room, cb)),
            !.pend = PendingAfterJoin(w.pend, Room, cb)]

\* the unsubscribe function, lines 275-281.
Leave(w, cb) ==
  [w EXCEPT !.ch = ChannelsAfterLeave(w.ch, Room, cb),
            !.pend = PendingAfterLeave(w.ch, w.pend, Room, cb)]

\* The step's result, with the bounds on what a client creates.
SetWorld(w) ==
  /\ \A c \in Clients : Len(w.h[c].peers) <= peerBudget
  /\ hook' = w.h
  /\ SIGNALING_CHANNELS' = w.ch
  /\ PENDING_MESSAGES' = w.pend
  /\ UNCHANGED <<now, msgs, calls, emptied, peerHasSenders, peerBudget, acqVars>>

\* A step of a user or a fault of a device or connection, against a step the
\* program takes by itself.
Op == ops < MaxOps /\ ops' = ops + 1
Auto == UNCHANGED ops

\* What a client did last: the operation, the id it named, three flags and
\* two capture sessions it saw.
Did(op, id, f, n) == [op |-> op, id |-> id, f |-> f, n |-> n]
NoPrev == Did("other", NoId, <<FALSE, FALSE, FALSE>>, <<0, 0>>)
Forget(c) == prev' = [prev EXCEPT ![c] = NoPrev]

\* ---------------------------------------------------------------- mount, render, unmount
\* initLocalStream up to its first capture request, lines 618-647.
StartRun(h) ==
  [h EXCEPT !.isInitializing = (h.life = "mounted") \/ @,
            !.streamInitAttempts = @ + 1, !.init = "pending"]

\* The effects of the first render, in order: lines 607-777, 1200-1210, 1449-1526.
Mount(c) ==
  /\ Auto
  /\ hook[c].life = "new"
  /\ LET h1 == StartRun([hook[c] EXCEPT !.life = "mounted"])
         w1 == Join([World EXCEPT !.h[c] = h1], Cb("handleSignals", c))
         w2 == Send(w1, Message("name-update", c, NoId, "User", FALSE))
     IN SetWorld(w2)
  /\ Forget(c)

\* The peer effect, lines 1200-1422: the cleanup of its last run, then its body.
PeerEffect(w, c) ==
  LET w1 == IF w.h[c].peerEffectOn
            THEN LET l == Leave(w, Cb("signalCallback", c))
                 IN [l EXCEPT !.h[c] = Clear(DestroyAll(@))]
            ELSE w
      w2 == [w1 EXCEPT !.h[c].effDep = w.h[c].localStreamRef,
                       !.h[c].peerEffectOn = (w.h[c].localStreamRef # 0)]
  IN IF w.h[c].localStreamRef = 0 THEN w2
     ELSE Send(Join(w2, Cb("signalCallback", c)), Message("new-peer", c, NoId, "", FALSE))

\* A re-render: the callbacks capture the current state, and the peer effect
\* runs again when localStreamRef.current is not what its last run saw.
Render(c) ==
  /\ Auto
  /\ hook[c].life = "mounted"
  /\ \/ hook[c].rMic # hook[c].isMicOn
     \/ hook[c].rCam # hook[c].isCameraOn
     \/ hook[c].rSS # hook[c].isScreenSharing
     \/ hook[c].effDep # hook[c].localStreamRef
  /\ LET w1 == [World EXCEPT !.h[c].rMic = hook[c].isMicOn,
                             !.h[c].rCam = hook[c].isCameraOn,
                             !.h[c].rSS = hook[c].isScreenSharing]
     IN SetWorld(IF hook[c].effDep # hook[c].localStreamRef THEN PeerEffect(w1, c) ELSE w1)
  /\ UNCHANGED prev

\* The cleanups at unmount, in order: lines 780-801, 1412-1421, 1528-1531.
Unmount(c) ==
  /\ Op
  /\ hook[c].life = "mounted"
  /\ LET h == hook[c]
         h1 == DestroyAll(Stop(Stop(h, h.localStreamRef), h.screenStream))
         h2 == [h1 EXCEPT !.life = "gone", !.localStreamRef = 0, !.screenStream = 0,
                          !.init = IF @ = "backoff" THEN "idle" ELSE @]
         w1 == [World EXCEPT !.h[c] = h2]
         w2 == IF h.peerEffectOn
               THEN LET l == Leave(w1, Cb("signalCallback", c))
                    IN [l EXCEPT !.h[c] = Clear(DestroyAll(@))]
               ELSE w1
     IN SetWorld(Leave(w2, Cb("handleSignals", c)))
  /\ Forget(c)

\* ---------------------------------------------------------------- initialization
\* initLocalStream obtained a session, lines 655-731: by its own request with
\* exact constraints (lines 631-640), or by getMediaStream, which optimizes the
\* tracks before it returns (line 448).
InitSettles(c, a, v, optimized) ==
  /\ Auto
  /\ hook[c].init = "pending"
  /\ a \/ v
  /\ c \notin Sharers => a /\ v
  /\ Len(hook[c].streams) < MaxStreams
  /\ LET h == hook[c]
         h0 == Capture(h, "camera", a, v)
         s == Len(h0.streams)
         h1 == IF optimized THEN OptimizeMediaTracks(h0, s) ELSE h0
         h2 == IF h.life # "mounted" THEN [h1 EXCEPT !.init = "idle"]
               ELSE [h1 EXCEPT
                       !.init = "idle", !.localStreamRef = s, !.error = "none",
                       !.participants =
                          << [id |-> c, name |-> "User",
                              videoEnabled |-> v /\ h.initialVideoEnabled,
                              audioEnabled |-> a /\ h.initialAudioEnabled,
                              isScreenSharing |-> FALSE, isCurrentUser |-> TRUE,
                              stream |-> s] >>,
                       !.isCameraOn = v, !.isMicOn = a,
                       !.healthCheck = TRUE, !.isInitializing = FALSE]
     IN SetWorld([World EXCEPT !.h[c] = h2])
  /\ Forget(c)

InitSucceeds(c, a, v) == InitSettles(c, a, v, FALSE)

InitOptimized(c, a, v) == InitSettles(c, a, v, TRUE)

\* The five-second timer of optimizeMediaTracks fires, lines 581-597.
UpgradeFires(c, t) ==
  /\ Auto
  /\ t \in DOMAIN hook[c].tracks
  /\ hook[c].tracks[t].upgrade
  /\ LET tr == hook[c].tracks[t]
     IN SetWorld([World EXCEPT
                    !.h[c].tracks[t] =
                       [tr EXCEPT !.upgrade = FALSE,
                                  !.tier = IF tr.live /\ tr.enabled THEN 2 ELSE @]])
  /\ Forget(c)

\* initLocalStream failed, lines 732-763.
InitFails(c) ==
  /\ Op
  /\ hook[c].init = "pending"
  /\ LET h == hook[c]
         h2 == IF h.life # "mounted" THEN [h EXCEPT !.init = "idle"]
               ELSE [h EXCEPT !.error = "init", !.isInitializing = FALSE,
                              !.init = IF RetryAllowed(h.streamInitAttempts)
                                       THEN "backoff" ELSE "idle"]
     IN SetWorld([World EXCEPT !.h[c] = h2])
  /\ Forget(c)

\* The backoff timer (lines 753-757) or the one-second reacquisition timer
\* (line 725) fires.
TimerFires(c) ==
  /\ Auto
  /\ \/ hook[c].init = "backoff" /\ hook[c].life = "mounted"
     \/ hook[c].init = "reinit"
  /\ SetWorld([World EXCEPT !.h[c] = StartRun(hook[c])])
  /\ Forget(c)

\* needsReinitialization, lines 699-717. Its isCameraOn / isMicOn are those of
\* the render that created the init effect.
NeedsReinitialization(h) ==
  LET a == AudioOf(h, h.localStreamRef)
      v == VideoOf(h, h.localStreamRef)
  IN \/ v # 0 /\ ~h.tracks[v].live /\ h.initialVideoEnabled
     \/ a # 0 /\ ~h.tracks[a].live /\ h.initialAudioEnabled

\* The ten-second liveness check finds an ended track, lines 693-728.
HealthCheck(c) ==
  /\ Auto
  /\ hook[c].healthCheck /\ hook[c].localStreamRef # 0
  /\ LET h == hook[c]
     IN /\ NeedsReinitialization(h)
        /\ SetWorld([World EXCEPT !.h[c] =
                       [Stop(h, h.localStreamRef) EXCEPT !.localStreamRef = 0,
                                                         !.init = "reinit"]])
  /\ Forget(c)

\* A device or the browser ends a track; a display track that has its onended
\* handler runs it (lines 1131-1133): the toggleScreenShare of the render in
\* which the share was started, whose isScreenSharing is false.
TrackEnded(c, t) ==
  /\ Op
  /\ hook[c].life = "mounted"
  /\ t \in DOMAIN hook[c].tracks
  /\ hook[c].tracks[t].live
  /\ LET h == hook[c]
         h1 == [h EXCEPT !.tracks[t].live = FALSE]
         h2 == IF h.tracks[t].onended
               THEN [h1 EXCEPT !.dispPending = Append(@, "ended")]
               ELSE h1
     IN /\ Len(h2.dispPending) <= MaxPending
        /\ SetWorld([World EXCEPT !.h[c] = h2])
  /\ Forget(c)

\* ---------------------------------------------------------------- user operations
\* "const newState = !isMicOn", line 810: the isMicOn of the last render.
ToggleMicNewState(h) == ~h.rMic

\* "prev.filter((p) => p.id !== participantId)", line 1435.
RemoveFilterMutAll(ps, participantId) == <<>>

RemoveFilter(ps, participantId) == FilterId(ps, participantId)

LocalFlag(h, field) ==
  \E i \in LocalEntries(h.participants) : h.participants[i][field]

\* toggleMic where the session has an audio track, lines 805-829 (the branch
\* that adds an audio track to a session without one is not taken here).
toggleMic(c) ==
  /\ Op
  /\ hook[c].life = "mounted"
  /\ AudioOf(hook[c], hook[c].localStreamRef) # 0
  /\ LET h == hook[c]
         a == AudioOf(h, h.localStreamRef)
         newState == ToggleMicNewState(h)
         h1 == [h EXCEPT !.tracks[a].enabled = newState,
                         !.isMicOn = newState,
                         !.participants =
                            MapLocal(@, [audioEnabled |-> newState])]
     IN /\ SetWorld(Send([World EXCEPT !.h[c] = h1],
                         Message("audio-state", c, NoId, "", newState)))
        /\ prev' = [prev EXCEPT ![c] =
                      Did("toggleMic", NoId,
                          <<h.tracks[a].enabled, h.isMicOn, LocalFlag(h, "audioEnabled")>>,
                          <<0, 0>>)]

\* toggleCamera where the session has a video track, lines 935-959 (the
\* branch that adds a video track is not taken here).
toggleCamera(c) ==
  /\ Op
  /\ hook[c].life = "mounted"
  /\ VideoOf(hook[c], hook[c].localStreamRef) # 0
  /\ LET h == hook[c]
         v == VideoOf(h, h.localStreamRef)
         newState == ~h.rCam
         h1 == [h EXCEPT !.tracks[v].enabled = newState,
                         !.isCameraOn = newState,
                         !.participants =
                            MapLocal(@, [videoEnabled |-> newState])]
     IN SetWorld(Send([World EXCEPT !.h[c] = h1],
                      Message("video-state", c, NoId, "", newState)))
  /\ Forget(c)

\* The other branch of toggleMic / toggleCamera, lines 830-833 and 960-963:
\* the session has no track of the kind, the captured state is off, and
\* getMediaStream is called for that kind alone. One such call at a time.
ToggleAdds(c, kind) ==
  /\ Op
  /\ hook[c].life = "mounted"
  /\ hook[c].localStreamRef # 0
  /\ hook[c].add.for = "none"
  /\ LET g == GMS(kind = "audio", kind = "video", 0)
     IN /\ g.do = "request"
        /\ SetWorld([World EXCEPT !.h[c].add =
                       [for |-> kind, pc |-> g.kind, frame |-> g.frame]])
  /\ Forget(c)

toggleMicAdds(c) ==
  /\ AudioOf(hook[c], hook[c].localStreamRef) = 0
  /\ ~hook[c].rMic
  /\ ToggleAdds(c, "audio")

toggleCameraAdds(c) ==
  /\ VideoOf(hook[c], hook[c].localStreamRef) = 0
  /\ ~hook[c].rCam
  /\ ToggleAdds(c, "video")

\* The track is given to every stored connection: replaceTrack on the sender
\* of its kind, or peer.addTrack, lines 844-853 and 974-983.
AddToPeers(h, kind, track) ==
  IF kind # "video" THEN h
  ELSE [h EXCEPT !.peers = [i \in DOMAIN h.peers |->
                              IF \E p \in Clients : h.peerConnections[p] = i
                              THEN [h.peers[i] EXCEPT !.video = track]
                              ELSE h.peers[i]]]

\* The .then of the toggle, lines 834-923 and 964-1053, with the session
\* getMediaStream returned (s, just captured). merges: addTrack on the
\* existing session did not throw.
ThenAdds(w, c, kind, s, merges) ==
  LET h == w.h[c]
      cur == h.localStreamRef
      track == IF kind = "audio" THEN AudioOf(h, s) ELSE VideoOf(h, s)
      flag == IF kind = "audio" THEN "audio-state" ELSE "video-state"
      on == IF kind = "audio" THEN [h EXCEPT !.isMicOn = TRUE]
            ELSE [h EXCEPT !.isCameraOn = TRUE]
      entry(st) == IF kind = "audio" THEN [audioEnabled |-> TRUE, stream |-> st]
                   ELSE [videoEnabled |-> TRUE, stream |-> st]
  IN IF cur = 0 \/ track = 0 THEN w
     ELSE IF merges
     THEN LET h1 == IF kind = "audio" THEN [on EXCEPT !.streams[cur].a = track]
                    ELSE [on EXCEPT !.streams[cur].v = track]
              h2 == [AddToPeers(h1, kind, track) EXCEPT
                       !.participants = MapLocal(@, entry(cur))]
          IN Send([w EXCEPT !.h[c] = h2], Message(flag, c, NoId, "", TRUE))
     ELSE LET h1 == IF kind = "audio"
                    THEN [on EXCEPT !.streams[s].v = VideoOf(h, cur)]
                    ELSE [on EXCEPT !.streams[s].a = AudioOf(h, cur)]
              h2 == [h1 EXCEPT !.localStreamRef = s,
                               !.participants = MapLocal(@, entry(s))]
          IN Send([w EXCEPT !.h[c] = h2], Message(flag, c, NoId, "", TRUE))

\* A getUserMedia request of that getMediaStream call settles, lines 395-537.
\* A session the reduced-quality request obtains is dropped with its tracks
\* live (see LowerSettles).
AddSettles(c, e, merges) ==
  /\ IF e = "ok" /\ merges THEN Auto ELSE Op
  /\ hook[c].add.for # "none"
  /\ LET h == hook[c]
         ad == h.add
         got == e = "ok" /\ ad.pc \in {"audio", "video"}
         hc == IF e = "ok"
               THEN Capture(h, "camera", ad.pc \in {"audio", "lower"},
                            ad.pc \in {"video", "lower"})
               ELSE h
         next == IF ad.pc = "lower" THEN GMS(TRUE, FALSE, ad.frame.retryAttempt + 1)
                 ELSE CatchSingle(ad.frame, e)
         w1 == [World EXCEPT !.h[c] = hc]
     IN /\ Len(hc.streams) <= MaxStreams
        /\ ~got => merges
        /\ IF got
           THEN SetWorld(ThenAdds([w1 EXCEPT !.h[c].add = NoAdd], c, ad.for,
                                  Len(hc.streams), merges))
           ELSE IF next.do = "request"
           THEN SetWorld([w1 EXCEPT !.h[c].add = [ad EXCEPT !.pc = next.kind,
                                                            !.frame = next.frame]])
           ELSE SetWorld([w1 EXCEPT !.h[c].add = NoAdd])
  /\ Forget(c)

\* removeParticipant(participantId), lines 1425-1446.
removeParticipant(c, participantId) ==
  /\ Op
  /\ hook[c].life = "mounted"
  /\ LET w1 == Send(World, Message("remove-participant", c, NoId, participantId, FALSE))
         h == w1.h[c]
         h1 == [h EXCEPT !.participants = RemoveFilter(@, participantId)]
         i == IF participantId \in Clients THEN h.peerConnections[participantId] ELSE 0
         h2 == IF i # 0
               THEN [h1 EXCEPT !.peers[i].destroyed = TRUE,
                               !.peerConnections[participantId] = 0]
               ELSE h1
     IN /\ SetWorld([w1 EXCEPT !.h[c] = h2])
        /\ prev' = [prev EXCEPT ![c] =
                      Did("removeParticipant", participantId,
                          <<\A k \in DOMAIN h.participants :
                               h.participants[k].id # participantId,
                            i # 0, FALSE>>,
                          <<0, 0>>)]

\* ---------------------------------------------------------------- screen share
\* A stop path that leaves the senders of the connections alone.
StopTailMutNoReplace(w, c, hadSession, track) ==
  LET h == w.h[c]
      h1 == IF hadSession
            THEN [h EXCEPT
                    !.participants =
                       MapLocal(@, [isScreenSharing |-> FALSE, stream |-> h.localStreamRef])]
            ELSE h
      h2 == [h1 EXCEPT !.isScreenSharing = FALSE]
  IN Send([w EXCEPT !.h[c] = h2], Message("screen-share-state", c, NoId, "", FALSE))

\* The stop path after its await, lines 1161-1191. hadSession: the test of
\* line 1145 passed; track: the camera video track taken at line 1146.
StopTail(w, c, hadSession, track) ==
  LET h == w.h[c]
      h1 == IF hadSession
            THEN [ReplaceVideo(h, peerHasSenders, track) EXCEPT
                    !.participants =
                       MapLocal(@, [isScreenSharing |-> FALSE, stream |-> h.localStreamRef])]
            ELSE h
      h2 == [h1 EXCEPT !.isScreenSharing = FALSE]
  IN Send([w EXCEPT !.h[c] = h2], Message("screen-share-state", c, NoId, "", FALSE))

\* toggleScreenShare up to its first await, lines 1065-1069 and 1134-1151.
toggleScreenShare(c) ==
  /\ Op
  /\ hook[c].life = "mounted"
  /\ LET h == hook[c]
         track == VideoOf(h, h.localStreamRef)
         h1 == [Stop(h, h.screenStream) EXCEPT !.screenStream = 0]
     IN IF ~h.rSS
        THEN /\ Len(h.dispPending) < MaxPending
             /\ SetWorld([World EXCEPT !.h[c].dispPending = Append(@, "user")])
             /\ Forget(c)
        ELSE IF track # 0
        THEN /\ Len(h.stopPending) < MaxPending
             /\ SetWorld([World EXCEPT !.h[c] = [h1 EXCEPT !.stopPending = Append(@, track)]])
             /\ prev' = [prev EXCEPT ![c] =
                           IF @.op = "started" THEN [@ EXCEPT !.op = "stopping"] ELSE NoPrev]
        ELSE /\ SetWorld(StopTail([World EXCEPT !.h[c] = h1], c, h.localStreamRef # 0, 0))
             /\ prev' = [prev EXCEPT ![c] =
                           IF @.op = "started" THEN [@ EXCEPT !.op = "stopped"] ELSE NoPrev]

\* applyConstraints on the camera track settled, lines 1151-1159.
StopContinues(c) ==
  /\ Auto
  /\ hook[c].stopPending # <<>>
  /\ hook[c].life = "mounted"
  /\ SetWorld(StopTail([World EXCEPT !.h[c].stopPending = Tail(@),
                                     !.h[c].tracks[Head(hook[c].stopPending)].tier = 1],
                       c, TRUE, Head(hook[c].stopPending)))
  /\ prev' = [prev EXCEPT ![c] =
                IF @.op = "stopping" THEN [@ EXCEPT !.op = "stopped"] ELSE NoPrev]

\* getDisplayMedia resolved, lines 1069-1095.
DisplayGranted(c) ==
  /\ Auto
  /\ hook[c].dispPending # <<>>
  /\ hook[c].life = "mounted"
  /\ Len(hook[c].streams) < MaxStreams
  /\ Len(hook[c].startPending) < MaxPending
  /\ LET h1 == Capture(hook[c], "screen", FALSE, TRUE)
         s == Len(h1.streams)
     IN SetWorld([World EXCEPT !.h[c] =
                    [h1 EXCEPT !.dispPending = Tail(@), !.screenStream = s,
                               !.startPending = Append(@, s)]])
  /\ Forget(c)

\* getDisplayMedia rejected, lines 1193-1196.
DisplayDenied(c) ==
  /\ Op
  /\ hook[c].dispPending # <<>>
  /\ hook[c].life = "mounted"
  /\ SetWorld([World EXCEPT !.h[c].dispPending = Tail(@), !.h[c].error = "screen"])
  /\ Forget(c)

\* applyConstraints on the display track settled, lines 1095-1133.
StartContinues(c) ==
  /\ Auto
  /\ hook[c].startPending # <<>>
  /\ hook[c].life = "mounted"
  /\ LET h == hook[c]
         s == Head(h.startPending)
         track == VideoOf(h, s)
         h1 == [ReplaceVideo(h, peerHasSenders, track) EXCEPT !.startPending = Tail(@)]
         w1 == Send([World EXCEPT !.h[c] = h1],
                    Message("screen-share-state", c, NoId, "", TRUE))
         h2 == [w1.h[c] EXCEPT
                  !.participants =
                     MapLocal(@, [isScreenSharing |-> TRUE, stream |-> s]),
                  !.isScreenSharing = TRUE,
                  !.tracks[track].onended = TRUE]
     IN /\ SetWorld([w1 EXCEPT !.h[c] = h2])
        /\ prev' = [prev EXCEPT ![c] =
                      IF /\ h.localStreamRef # 0 /\ h.screenStream = s
                         /\ h.dispPending = <<>> /\ h2.startPending = <<>>
                         /\ h.stopPending = <<>>
                      THEN Did("started", NoId, <<FALSE, FALSE, FALSE>>,
                               <<h.localStreamRef, s>>)
                      ELSE NoPrev]

\* ---------------------------------------------------------------- peer events
\* The Peer emits its offer or its answer: the 'signal' handler, lines 1336-1344.
PeerEmitsSignal(c, i) ==
  /\ Auto
  /\ hook[c].life = "mounted"
  /\ i \in DOMAIN hook[c].peers
  /\ ~hook[c].peers[i].destroyed
  /\ hook[c].peers[i].phase \in {"new", "haveOffer"}
  /\ LET p == hook[c].peers[i]
         offer == p.phase = "new"
         w1 == Send(World, Message("signal", c, p.peerId,
                                   IF offer THEN "offer" ELSE "answer", FALSE))
     IN /\ offer => p.initiator
        /\ SetWorld([w1 EXCEPT !.h[c].peers[i].phase =
                                  IF offer THEN "offered" ELSE "stable"])
  /\ Forget(c)

\* The Peer emits 'stream', lines 1347-1383.
PeerStream(c, i) ==
  /\ Auto
  /\ hook[c].life = "mounted"
  /\ i \in DOMAIN hook[c].peers
  /\ ~hook[c].peers[i].destroyed
  /\ hook[c].peers[i].phase = "stable"
  /\ ~hook[c].peers[i].gotStream
  /\ LET h == hook[c]
         peerId == h.peers[i].peerId
         ps == h.participants
         ps1 == IF \E k \in DOMAIN ps : ps[k].id = peerId
                THEN MapId(ps, peerId, [stream |-> 0 - i, videoEnabled |-> TRUE,
                                        audioEnabled |-> TRUE])
                ELSE Append(ps, [id |-> peerId, name |-> "Peer",
                                 videoEnabled |-> TRUE, audioEnabled |-> TRUE,
                                 isScreenSharing |-> FALSE, isCurrentUser |-> FALSE,
                                 stream |-> 0 - i])
     IN SetWorld([World EXCEPT !.h[c].participants = ps1,
                               !.h[c].peers[i].gotStream = TRUE])
  /\ Forget(c)

\* The Peer emits 'close' or 'error' (after destroy() or on its own), lines
\* 1386-1398.
PeerCloses(c, i) ==
  /\ IF hook[c].life = "mounted" /\ i \in DOMAIN hook[c].peers /\ hook[c].peers[i].destroyed
     THEN Auto ELSE Op
  /\ hook[c].life = "mounted"
  /\ i \in DOMAIN hook[c].peers
  /\ ~hook[c].peers[i].closed
  /\ LET peerId == hook[c].peers[i].peerId
     IN SetWorld([World EXCEPT !.h[c].peers[i].destroyed = TRUE,
                               !.h[c].peers[i].closed = TRUE,
                               !.h[c].peerConnections[peerId] = 0,
                               !.h[c].participants = FilterId(@, peerId)])
  /\ Forget(c)

\* ---------------------------------------------------------------- the session
\* The hooks before their first effects run. _senders is only read by the
\* screen share, so a room session fixes it.
SessStart(senders) ==
  /\ \E p \in Props :
        hook = [c \in Clients |-> IF c \in Sharers THEN NewHook(p[1], p[2])
                                  ELSE NewHook(TRUE, TRUE)]
  /\ prev = [c \in Clients |-> NoPrev]
  /\ peerHasSenders \in senders
  /\ peerBudget = MaxPeers
  /\ ops = 0

Init == RelayInit /\ supported = TRUE /\ AcqStart /\ SessStart({TRUE})

DeviceInit == RelayInit /\ supported = TRUE /\ AcqStart /\ SessStart(BOOLEAN)

\* The room: every client's hook, its user and its connections.
Next ==
  \/ \E c \in Clients : Mount(c)
  \/ \E c \in Clients : Render(c)
  \/ \E c \in Clients : Unmount(c)
  \/ \E c \in Clients, a \in BOOLEAN, v \in BOOLEAN : InitSucceeds(c, a, v)
  \/ \E c \in Clients : toggleMic(c)
  \/ \E c \in Clients : toggleCamera(c)
  \/ \E c \in Clients, id \in Clients \cup {Absent} : removeParticipant(c, id)
  \/ \E c \in Clients, i \in 1..MaxPeers : PeerEmitsSignal(c, i)
  \/ \E c \in Clients, i \in 1..MaxPeers : PeerStream(c, i)
  \/ \E c \in Clients, i \in 1..MaxPeers : PeerCloses(c, i)

\* The devices of one client: capture, screen share and their faults, with
\* the other clients only arriving and connecting.
DeviceNext ==
  \/ \E c \in Clients : Mount(c)
  \/ \E c \in Clients : Render(c)
  \/ \E c \in Clients, a \in BOOLEAN, v \in BOOLEAN : InitSucceeds(c, a, v)
  \/ \E c \in Sharers : InitFails(c)
  \/ \E c \in Sharers : TimerFires(c)
  \/ \E c \in Sharers : HealthCheck(c)
  \/ \E c \in Sharers, t \in 1..(2 * MaxStreams) : TrackEnded(c, t)
  \/ \E c \in Sharers : toggleMic(c)
  \/ \E c \in Sharers : toggleCamera(c)
  \/ \E c \in Sharers : toggleScreenShare(c)
  \/ \E c \in Sharers : StopContinues(c)
  \/ \E c \in Sharers : DisplayGranted(c)
  \/ \E c \in Sharers : DisplayDenied(c)
  \/ \E c \in Sharers : StartContinues(c)
  \/ \E c \in Clients, i \in 1..MaxPeers : PeerEmitsSignal(c, i)
  \/ \E c \in Clients, i \in 1..MaxPeers : PeerStream(c, i)

\* ================================================================ specifications
\* A session of the room, and a session of one client's devices.
Spec == Init /\ [][Next]_vars

SpecDevice == DeviceInit /\ [][DeviceNext]_vars

\* Two clients arriving and connecting, with nothing else happening. A Peer
\* that can emit its offer or answer does, and (the transport delivering it) a
\* negotiated Peer emits the remote stream.
JoinNext ==
  \/ \E c \in Clients : Mount(c)
  \/ \E c \in Clients : Render(c)
  \/ \E c \in Clients, a \in BOOLEAN, v \in BOOLEAN : InitSucceeds(c, a, v)
  \/ \E c \in Clients, i \in 1..MaxPeers : PeerEmitsSignal(c, i)
  \/ \E c \in Clients, i \in 1..MaxPeers : PeerStream(c, i)

PeerProgress ==
  /\ WF_vars(\E c \in Clients, i \in 1..MaxPeers : PeerEmitsSignal(c, i))
  /\ WF_vars(\E c \in Clients, i \in 1..MaxPeers : PeerStream(c, i))

SpecJoin == Init /\ [][JoinNext]_vars /\ PeerProgress

\* A client whose capture ends and is reacquired while the other stays
\* connected: the faults of the tracks and of the connections, and the
\* registrations that follow.
ReconnectInit ==
  /\ RelayInit /\ supported = TRUE /\ AcqStart
  /\ hook = [c \in Clients |-> NewHook(TRUE, TRUE)]
  /\ prev = [c \in Clients |-> NoPrev]
  /\ peerHasSenders = TRUE
  /\ peerBudget = MaxRePeers
  /\ ops = 0

ReconnectNext ==
  \/ \E c \in Clients : Mount(c)
  \/ \E c \in Clients : Render(c)
  \/ \E c \in Clients, a \in BOOLEAN, v \in BOOLEAN : InitSucceeds(c, a, v)
  \/ \E c \in Sharers, t \in 1..(2 * MaxStreams) : TrackEnded(c, t)
  \/ \E c \in Sharers : HealthCheck(c)
  \/ \E c \in Sharers : TimerFires(c)
  \/ \E c \in Clients, i \in 1..MaxRePeers : PeerEmitsSignal(c, i)
  \/ \E c \in Clients, i \in 1..MaxRePeers : PeerStream(c, i)
  \/ \E c \in Clients, i \in 1..MaxRePeers : PeerCloses(c, i)

SpecReconnect == ReconnectInit /\ [][ReconnectNext]_vars

\* The quality of one client's camera track: a session obtained through
\* getMediaStream, its upgrade timer, and the operations of the client.
QualityNext ==
  \/ \E c \in Sharers : Mount(c)
  \/ \E c \in Sharers : Render(c)
  \/ \E c \in Sharers, a \in BOOLEAN, v \in BOOLEAN : InitOptimized(c, a, v)
  \/ \E c \in Sharers, t \in 1..(2 * MaxStreams) : UpgradeFires(c, t)
  \/ \E c \in Sharers, t \in 1..(2 * MaxStreams) : TrackEnded(c, t)
  \/ \E c \in Sharers : toggleMic(c)
  \/ \E c \in Sharers : toggleCamera(c)
  \/ \E c \in Sharers : toggleScreenShare(c)
  \/ \E c \in Sharers : DisplayGranted(c)
  \/ \E c \in Sharers : StartContinues(c)
  \/ \E c \in Sharers : StopContinues(c)

SpecQuality == DeviceInit /\ [][QualityNext]_vars

\* A client whose session lacks a kind and who switches that kind on, with
\* the other client connecting.
AddNext ==
  \/ \E c \in Clients : Mount(c)
  \/ \E c \in Clients : Render(c)
  \/ \E c \in Clients, a \in BOOLEAN, v \in BOOLEAN : InitSucceeds(c, a, v)
  \/ \E c \in Sharers : toggleMic(c)
  \/ \E c \in Sharers : toggleCamera(c)
  \/ \E c \in Sharers : toggleMicAdds(c)
  \/ \E c \in Sharers : toggleCameraAdds(c)
  \/ \E c \in Sharers, e \in Outcomes, merges \in BOOLEAN : AddSettles(c, e, merges)
  \/ \E c \in Clients, i \in 1..MaxPeers : PeerEmitsSignal(c, i)
  \/ \E c \in Clients, i \in 1..MaxPeers : PeerStream(c, i)

SpecAdd == Init /\ [][AddNext]_vars

\* No hook is rendered in a relay run or an acquisition run.
SessIdle ==
  /\ hook = [c \in Clients |-> NewHook(TRUE, TRUE)]
  /\ prev = [c \in Clients |-> NoPrev]
  /\ peerHasSenders = TRUE
  /\ peerBudget = MaxPeers
  /\ ops = 0

\* An acquisition run: one hook, the device answers every request freely.
AcqInit ==
  /\ supported \in BOOLEAN
  /\ AcqStart
  /\ RelayInit
  /\ SessIdle

SpecAcq == AcqInit /\ [][AcqNext]_vars

\* A relay run: callbacks join and leave, messages are sent, time passes.
RelayStart == RelayInit /\ supported = TRUE /\ AcqStart /\ SessIdle

SpecRelay == RelayStart /\ [][RelayNext]_vars

\* ================================================================ claims: acquisition
\* C7 (as stated): when every capture request of an initialization failed with
\* DeviceBusy or OverConstrained, the final failure (no retry pending) comes
\* only after each tier of the ladder was requested, in ladder order. Stated
\* for the first initialization cycle of the hook.
C7_AllTiersBeforeFailure ==
  (pc = "failed" /\ supported /\ onlyBusy /\ cycles = 0)
    => (tiers = {1, 2, 3, 4} /\ orderOK)

\* C8 (as stated): at most 4 getUserMedia calls per initialization cycle.
C8_Original == nReq <= 4

\* C8 (amended): what the caps do bound. getMediaStream issues requests only
\* with retryAttempt <= 3, one initLocalStream run issues at most 9 requests,
\* at most 3 runs are chained by the backoff, and a cycle issues at most 21.
C8_RequestsBounded ==
  /\ nReq <= 21
  /\ nReqRun <= 9
  /\ pc \in {"basic", "detailed", "audio", "video", "lower"} => frame.retryAttempt <= 3
  /\ pc = "backoff" => streamInitAttempts < 3

\* The longest cycle: 21 requests, ending in the final failure.
C8_Witness == nReq = 21 /\ pc = "failed" /\ cycles = 0

\* ---------------------------------------------------------------- error surfacing
Messages == {"unsupported", "maxretry", "denied", "notfound", "inuse", "default"}

\* C19: whenever an initialization attempt has ended without a capture
\* session (access denied, no device, no API, every fallback failed), the
\* error is a message and isInitializing is false; whenever it has ended with
\* a session, the error is null.
C19_ErrorSurfaced ==
  /\ pc \in {"backoff", "failed"} =>
        /\ acqError \in Messages
        /\ ~isInitializing
        /\ acqStream = NoSession
        /\ ~supported => acqError = "unsupported"
  /\ pc = "ready" => acqError = "none" /\ ~isInitializing

\* A session obtained by a backoff retry, after an attempt that had set the
\* error.
C19_Witness ==
  /\ pc = "ready" /\ cycles = 0 /\ streamInitAttempts = 2
  /\ acqError = "none" /\ acqStream # NoSession

\* C22 (as stated): the delay scheduled before the k-th retry is
\* 1 s * 2^(k-1). Stated for the first initialization cycle, where the k-th
\* retry is the one scheduled by the k-th run.
C22_Original ==
  (pc = "backoff" /\ cycles = 0) =>
     \/ streamInitAttempts = 1 /\ backoffTime = 1000
     \/ streamInitAttempts = 2 /\ backoffTime = 2000

\* C22 (amended): the delay scheduled after the n-th run of initLocalStream
\* of the hook is 1 s * 2^n: 2 s after the first run, 4 s after the second;
\* after a third or later run no retry is scheduled.
C22_BackoffSchedule ==
  /\ pc = "backoff" =>
        \/ streamInitAttempts = 1 /\ backoffTime = 2000
        \/ streamInitAttempts = 2 /\ backoffTime = 4000
  /\ pc = "failed" => streamInitAttempts >= 3

\* The second retry is pending.
C22_Witness == pc = "backoff" /\ streamInitAttempts = 2 /\ backoffTime = 4000

\* ================================================================ claims: relay
\* How often message m was handed to some callback / to callback cb.
Deliveries(m) ==
  LET evs == { e \in BagToSet(calls) : e.m = m }
      RECURSIVE Sum(_)
      Sum(S) == IF S = {} THEN 0
                ELSE LET e == CHOOSE x \in S : TRUE
                     IN CopiesIn(e, calls) + Sum(S \ {e})
  IN Sum(evs)

QueuedMsgs == { i \in DOMAIN msgs : msgs[i].queued }

C2_ExpiredNeverDelivered ==
  \A i \in QueuedMsgs :
    (msgs[i].joinedAt # -1 /\ msgs[i].joinedAt - msgs[i].sentAt >= TTL)
      => Deliveries(i) = 0

\* C3: a sendSignal step invokes, once each, exactly the callbacks registered
\* in the message's room whose id differs from the sender's and which the
\* message addresses (broadcast, or receiverId equal to the callback's id);
\* it invokes nobody else and nothing is invoked twice.
C3_SendStep ==
  Len(msgs') = Len(msgs) + 1 =>
    LET m == msgs'[Len(msgs')] IN
    /\ \A cb \in RelayCallbacks :
         CopiesIn(Call(m.id, cb, "send"), calls') =
           IF /\ cb \in SIGNALING_CHANNELS[m.room]
              /\ cb.senderId # m.senderId
              /\ (m.receiverId = NoId \/ m.receiverId = cb.senderId)
           THEN 1 ELSE 0
    /\ \A e \in BagToSet(calls') :
         \/ e.m = m.id /\ e.via = "send"
         \/ CopiesIn(e, calls') = CopiesIn(e, calls)

C3_SendInvokesExactlyMatching == [][C3_SendStep]_relayVars

\* A broadcast from "b" reached both callbacks of "a" and not the callback
\* of "b", while a callback of "a" was also registered in the other room.
C3_Witness ==
  /\ Len(msgs) = 1 /\ msgs[1].senderId = "b" /\ msgs[1].receiverId = NoId
  /\ SIGNALING_CHANNELS["r1"] = RelayCallbacks
  /\ SIGNALING_CHANNELS["r2"] # {}
  /\ BagToSet(calls) = { Call(1, cb, "send") : cb \in { c \in RelayCallbacks : c.senderId = "a" } }

\* ================================================================ claims: session
\* The registry and the connections of a client, as C5 speaks of them.
Connections(d) == <<hook[d].peerConnections, hook[d].peers>>
AbsentFrom(c, id) ==
  \A k \in DOMAIN hook[c].participants : hook[c].participants[k].id # id

\* C4 (as stated): from the first successful capture of a rendered hook on,
\* its participants list holds exactly one entry with isCurrentUser = true.
C4_ExactlyOneLocalEntry ==
  \A c \in Clients :
    (hook[c].life = "mounted" /\ hook[c].healthCheck)
      => Cardinality(LocalEntries(hook[c].participants)) = 1

C5_Step(c, id) ==
  (prev'[c].id = id /\ AbsentFrom(c, id) /\ removeParticipant(c, id))
    => /\ \A d \in Clients : hook'[d].participants = hook[d].participants
       /\ \A d \in Clients \ {c, id} : Connections(d)' = Connections(d)
       /\ \A p \in Clients \ {id} :
             hook'[c].peerConnections[p] = hook[c].peerConnections[p]
       /\ \A i \in DOMAIN hook[c].peers :
             (\A p \in Clients : hook[c].peerConnections[p] = i => p # id)
               => hook'[c].peers[i] = hook[c].peers[i]
       /\ id \in Clients => hook'[c].peerConnections[id] = 0
       /\ (id \in Clients \ {c} /\ Cb("handleSignals", id) \in SIGNALING_CHANNELS[Room])
             => \A p \in Clients : hook'[id].peerConnections[p] = 0
       /\ ( /\ id \in Clients => hook[c].peerConnections[id] = 0
            /\ id \in Clients \ {c} => \A p \in Clients : hook[id].peerConnections[p] = 0 )
             => \A d \in Clients : Connections(d)' = Connections(d)

C6_TwoTogglesRestore ==
  [][\A c \in Clients :
       (prev[c].op = "toggleMic" /\ LocalEntries(hook[c].participants) # {} /\ toggleMic(c))
         => LET h == hook'[c]
            IN <<h.tracks[AudioOf(h, h.localStreamRef)].enabled, h.isMicOn,
                 LocalFlag(h, "audioEnabled")>> = prev[c].f]_vars

\* C9: when a share was started by a client holding a camera session, with no
\* other display request or share continuation outstanding, and the next
\* operation of that client is the toggleScreenShare() that stops it, then
\* once the stop has run isScreenSharing is false, the local participant is
\* not sharing and references the camera session, every stored open
\* connection sends the camera session's video track, and every track of the
\* display capture is stopped.
C9_StopCompletes(c) ==
  \/ prev[c].op = "stopping" /\ StopContinues(c)
  \/ /\ prev[c].op = "started"
     /\ hook[c].rSS /\ VideoOf(hook[c], hook[c].localStreamRef) = 0
     /\ toggleScreenShare(c)

C9_Restored(h, cam, disp) ==
  /\ ~h.isScreenSharing
  /\ \A k \in LocalEntries(h.participants) :
        ~h.participants[k].isScreenSharing /\ h.participants[k].stream = cam
  /\ \A p \in Clients :
        (h.peerConnections[p] # 0 /\ ~h.peers[h.peerConnections[p]].destroyed)
          => h.peers[h.peerConnections[p]].video = VideoOf(h, cam)
  /\ \A t \in TracksOf(h, disp) : ~h.tracks[t].live

C9_StartThenStopRestores ==
  [][\A c \in Sharers :
       C9_StopCompletes(c) => C9_Restored(hook'[c], prev[c].n[1], prev[c].n[2])]_vars

\* A start-then-stop has completed on a client that holds an open connection
\* whose video sender was switched to the display track and back.
C9_Witness ==
  \E c \in Sharers :
    /\ prev[c].op = "stopped" /\ peerHasSenders
    /\ \E p \in Clients :
          /\ hook[c].peerConnections[p] # 0
          /\ hook[c].peers[hook[c].peerConnections[p]].video # 0
    /\ LocalEntries(hook[c].participants) # {}

\* C10 (as stated): when the video track of the active display capture ends
\* by itself, the handler runs the stop path (the display handle is released
\* and isScreenSharing is cleared or being cleared) and requests no new
\* display capture.
C10_EndedRunsStopPath ==
  [][\A c \in Sharers, t \in 1..(2 * MaxStreams) :
       ( /\ hook[c].isScreenSharing
         /\ hook[c].screenStream # 0 /\ VideoOf(hook[c], hook[c].screenStream) = t
         /\ hook[c].tracks[t].onended
         /\ TrackEnded(c, t) )
         => /\ hook'[c].dispPending = hook[c].dispPending
            /\ hook'[c].screenStream = 0
            /\ ~hook'[c].isScreenSharing \/ hook'[c].stopPending # <<>>]_vars

\* ---------------------------------------------------------------- teardown
LiveTracks(h) == { t \in DOMAIN h.tracks : h.tracks[t].live }

\* C11 (as stated): once the cleanup of the init effect has run, no capture
\* or display track obtained by the session is live, in every interleaving:
\* a capture that was in flight at teardown and resolves afterwards has its
\* tracks stopped.
C11_TeardownReleasesDevices ==
  \A c \in Clients : hook[c].life = "gone" => LiveTracks(hook[c]) = {}

\* C12 (as stated): after teardown none of the timers the session created
\* remains scheduled: not the backoff retry timeout, not the ten-second
\* liveness interval of an initialization that succeeded, not the one-second
\* reacquisition timeout.
C12_TeardownClearsTimers ==
  \A c \in Clients :
     hook[c].life = "gone" =>
        /\ ~hook[c].healthCheck
        /\ hook[c].init \notin {"backoff", "reinit"}

\* ---------------------------------------------------------------- propagation
\* The stored, open and negotiated connection of client c to client p.
OpenTo(c, p) ==
  /\ hook[c].life = "mounted"
  /\ hook[c].peerConnections[p] # 0
  /\ ~hook[c].peers[hook[c].peerConnections[p]].destroyed
  /\ hook[c].peers[hook[c].peerConnections[p]].phase = "stable"

EntryOf(c, p) == { k \in DOMAIN hook[c].participants : hook[c].participants[k].id = p }

BothConnected(a, b) ==
  /\ a # b
  /\ OpenTo(a, b) /\ OpenTo(b, a)
  /\ EntryOf(a, b) # {} /\ EntryOf(b, a) # {}
  /\ Cardinality(LocalEntries(hook[a].participants)) = 1

SignalsQueued(pend) ==
  { k \in DOMAIN pend[Room] : pend[Room][k].type = "signal" }

\* What C13 says of everything but A's own entry: the video-state message
\* reaches B, B's entry for A takes the value A sent, and nothing is
\* negotiated.
C13_Propagated(a, b) ==
  /\ \A k \in DOMAIN hook'[b].participants :
        hook'[b].participants[k].id = a =>
           hook'[b].participants[k].videoEnabled = hook'[a].isCameraOn
  /\ \E k \in DOMAIN hook'[b].participants : hook'[b].participants[k].id = a
  /\ hook'[a].peers = hook[a].peers /\ hook'[b].peers = hook[b].peers
  /\ hook'[a].peerConnections = hook[a].peerConnections
  /\ hook'[b].peerConnections = hook[b].peerConnections
  /\ Cardinality(SignalsQueued(PENDING_MESSAGES')) = Cardinality(SignalsQueued(PENDING_MESSAGES))

C13_PropagatesOnly ==
  [][\A a \in Clients, b \in Clients :
       (ops' = ops + 1 /\ BothConnected(a, b) /\ toggleCamera(a))
          => C13_Propagated(a, b)]_vars

\* C13 (as stated): when A and B are connected and A calls toggleCamera with
\* a video track present, A's local entry flips videoEnabled, B's entry for
\* A takes the new value, no negotiation message is sent and the connection
\* records of A and B stay as they were.
C13_ToggleCameraPropagates ==
  [][\A a \in Clients, b \in Clients :
       (ops' = ops + 1 /\ BothConnected(a, b) /\ toggleCamera(a))
          => /\ LocalFlag(hook'[a], "videoEnabled") = ~LocalFlag(hook[a], "videoEnabled")
             /\ C13_Propagated(a, b)]_vars

\* ---------------------------------------------------------------- joining
RecordOf(h, p) == h.peers[h.peerConnections[p]]

HasStreamOf(c, p) ==
  \E k \in DOMAIN hook[c].participants :
     hook[c].participants[k].id = p /\ hook[c].participants[k].stream # 0

\* B announces itself while A is registered and holds no record for B: A
\* creates its record for B as the offer initiator.
C14_Announce(a, b) ==
  ( /\ hook[a].peerEffectOn /\ hook[a].peerConnections[b] = 0
    /\ ~hook[b].peerEffectOn /\ hook'[b].peerEffectOn )
    => /\ hook'[a].peerConnections[b] # 0
       /\ RecordOf(hook'[a], b).initiator
       /\ ~RecordOf(hook'[a], b).destroyed

\* A's Peer for B emits its offer while B holds no record for A: B creates
\* its record for A as the answerer, with the offer applied.
C14_Offer(a, b) ==
  ( /\ hook[a].peerConnections[b] # 0
    /\ RecordOf(hook[a], b).phase = "new"
    /\ hook'[a].peerConnections[b] = hook[a].peerConnections[b]
    /\ RecordOf(hook'[a], b).phase = "offered"
    /\ hook[b].peerConnections[a] = 0 )
    => /\ hook'[b].peerConnections[a] # 0
       /\ ~RecordOf(hook'[b], a).initiator
       /\ RecordOf(hook'[b], a).phase = "haveOffer"

\* B's Peer for A emits its answer: it reaches A's record for B.
C14_Answer(a, b) ==
  ( /\ hook[b].peerConnections[a] # 0
    /\ RecordOf(hook[b], a).phase = "haveOffer"
    /\ hook'[b].peerConnections[a] = hook[b].peerConnections[a]
    /\ RecordOf(hook'[b], a).phase = "stable" )
    => /\ hook'[a].peerConnections[b] # 0
       /\ RecordOf(hook'[a], b).phase = "stable"

BothRegistered == \A c \in Clients : hook[c].peerEffectOn

BothSeeEachOther == \A c \in Clients : \A p \in Clients \ {c} : HasStreamOf(c, p)

\* C14: when A holds a session and is registered and B then obtains a session
\* and joins, A creates its record for B as initiator on B's announce, B
\* creates its record for A as answerer on A's first offer, each negotiation
\* message reaches the other side's record, and, the transport delivering the
\* streams, eventually each registry has the other's entry with a stream.
C14_JoinLeadsToConnection ==
  /\ [][\A a \in Clients : \A b \in Clients \ {a} :
          C14_Announce(a, b) /\ C14_Offer(a, b) /\ C14_Answer(a, b)]_vars
  /\ (BothRegistered ~> BothSeeEachOther)

C14_Witness ==
  /\ BothSeeEachOther
  /\ \E a \in Clients : \E b \in Clients \ {a} :
        /\ OpenTo(a, b) /\ RecordOf(hook[a], b).initiator
        /\ OpenTo(b, a) /\ ~RecordOf(hook[b], a).initiator

\* ---------------------------------------------------------------- connection records
UndestroyedTo(h, p) ==
  { i \in DOMAIN h.peers : h.peers[i].peerId = p /\ ~h.peers[i].destroyed }

\* C18 (as stated): a client holds at most one undestroyed Peer per remote
\* participant id, also when an announce or an offer arrives from a
\* participant it already has a record for.
C18_OnePeerPerRemote ==
  \A c \in Clients, p \in Clients : Cardinality(UndestroyedTo(hook[c], p)) <= 1

\* The Peer i of client c, open until now, emits 'error' in this step.
PeerFails(c, i) ==
  /\ i \in DOMAIN hook[c].peers
  /\ ~hook[c].peers[i].destroyed
  /\ i \in DOMAIN hook'[c].peers
  /\ hook'[c].peers[i].closed

\* The record and the registry entry of the failed Peer's participant are gone.
C15_Removed(c, i) ==
  LET p == hook[c].peers[i].peerId
  IN /\ hook'[c].peerConnections[p] = 0
     /\ \A k \in DOMAIN hook'[c].participants : hook'[c].participants[k].id # p

C15_RecordAndEntryRemoved ==
  [][\A c \in Clients, i \in 1..MaxRePeers : PeerFails(c, i) => C15_Removed(c, i)]_vars

\* C15 (as stated): when the connection to P emits an error, P's record and
\* registry entry are removed and the client is left with no connection to P
\* that sends negotiation messages: a new one needs a new announce or offer
\* from P.
C15_FailureEndsNegotiation ==
  [][\A c \in Clients, i \in 1..MaxRePeers :
        PeerFails(c, i) =>
           /\ C15_Removed(c, i)
           /\ UndestroyedTo(hook'[c], hook[c].peers[i].peerId) = {}]_vars

\* ---------------------------------------------------------------- track replacement
OpenPeers(h) == { i \in DOMAIN h.peers : ~h.peers[i].destroyed }

\* C16 (as stated): no operation that changes the outgoing tracks (screen
\* share start and stop, the toggles, the replacement of the capture session
\* after a reacquisition) destroys a connection: the Peers that are open
\* before a step of the client are open after it.
C16_TracksReplacedInPlace ==
  [][\A c \in Sharers : OpenPeers(hook[c]) \subseteq OpenPeers(hook'[c])]_vars

\* ---------------------------------------------------------------- reacquisition
\* A track of the session has ended and the user has its kind switched on.
EndedWhileEnabled(h) ==
  LET a == AudioOf(h, h.localStreamRef)
      v == VideoOf(h, h.localStreamRef)
  IN \/ v # 0 /\ ~h.tracks[v].live /\ h.isCameraOn
     \/ a # 0 /\ ~h.tracks[a].live /\ h.isMicOn

\* C17 (as stated): when a track of the capture session has ended while its
\* kind is enabled in the current mic/camera state, the liveness check of the
\* session finds that the session needs reinitialization.
C17_EndedTrackIsReacquired ==
  \A c \in Sharers :
     ( /\ hook[c].life = "mounted" /\ hook[c].healthCheck
       /\ hook[c].localStreamRef # 0
       /\ EndedWhileEnabled(hook[c]) )
       => NeedsReinitialization(hook[c])

\* ---------------------------------------------------------------- remote entries
\* The Peer i of client c delivers its remote stream in this step.
StreamArrives(c, i) ==
  /\ i \in DOMAIN hook[c].peers
  /\ ~hook[c].peers[i].gotStream
  /\ i \in DOMAIN hook'[c].peers
  /\ hook'[c].peers[i].gotStream

\* Client c holds the record it created on the announce of p.
Announced(c, p) ==
  /\ hook[c].peerConnections[p] # 0
  /\ RecordOf(hook[c], p).initiator
  /\ ~RecordOf(hook[c], p).destroyed

Agree(a, b, fields) ==
  \A k \in EntryOf(b, a) : \A l \in LocalEntries(hook[a].participants) :
     \A f \in fields : hook[b].participants[k][f] = hook[a].participants[l][f]

Present(a, b) ==
  /\ a # b
  /\ hook[a].life = "mounted" /\ hook[b].life = "mounted"
  /\ LocalEntries(hook[a].participants) # {}
  /\ EntryOf(b, a) # {}

C21_FlagsCoherent ==
  \A a \in Clients, b \in Clients :
     Present(a, b) => Agree(a, b, {"audioEnabled", "videoEnabled", "isScreenSharing"})

\* C21 (as stated): whenever B's registry has an entry for A (state-change
\* messages are delivered when they are sent, so none is outstanding), its
\* audioEnabled, videoEnabled, isScreenSharing and name equal those of A's
\* own entry.
C21_RemoteViewCoherent ==
  \A a \in Clients, b \in Clients :
     Present(a, b) =>
        Agree(a, b, {"audioEnabled", "videoEnabled", "isScreenSharing", "name"})

\* ---------------------------------------------------------------- quality
\* C23 (as stated): within a session the quality tier applied to a camera
\* track never decreases: once the upgrade has been applied to a track, no
\* later operation applies a lower tier to that track.
C23_QualityNeverDowngrades ==
  [][\A c \in Sharers : \A t \in DOMAIN hook[c].tracks :
        hook'[c].tracks[t].tier >= hook[c].tracks[t].tier]_vars

\* The upgrade is applied only to a track that is live and enabled when the
\* timer fires.
C23_UpgradeOnlyIfLiveAndEnabled ==
  [][\A c \in Sharers : \A t \in DOMAIN hook[c].tracks :
        (hook[c].tracks[t].tier < 2 /\ hook'[c].tracks[t].tier = 2)
           => hook[c].tracks[t].live /\ hook[c].tracks[t].enabled]_vars

\* ---------------------------------------------------------------- adding a track
KindOf(h, s, kind) == IF kind = "audio" THEN AudioOf(h, s) ELSE VideoOf(h, s)
OtherKind(kind) == IF kind = "audio" THEN "video" ELSE "audio"

\* This step captures a session for the getMediaStream call of a toggle.
AddCaptures(c) ==
  hook[c].add.for # "none" /\ Len(hook'[c].streams) > Len(hook[c].streams)

\* This step ends that call.
AddEnds(c) == hook[c].add.for # "none" /\ hook'[c].add.for = "none"

\* The session after the step holds both kinds, and the track it had before is
\* the same track, with its live and enabled flags as they were.
C24_Added(c) ==
  LET h == hook[c]
      g == hook'[c]
      old == KindOf(h, h.localStreamRef, OtherKind(h.add.for))
  IN /\ g.localStreamRef # 0
     /\ KindOf(g, g.localStreamRef, h.add.for) # 0
     /\ KindOf(g, g.localStreamRef, OtherKind(h.add.for)) = old
     /\ g.tracks[old] = h.tracks[old]

C24_Unchanged(c) ==
  /\ hook'[c].localStreamRef = hook[c].localStreamRef
  /\ hook'[c].streams = hook[c].streams
  /\ hook'[c].participants = hook[c].participants

\* The frame of C24 where the call obtains the kind it was made for.
C24_MergeKeepsTrack ==
  [][\A c \in Sharers :
        ( /\ AddEnds(c) /\ AddCaptures(c)
          /\ hook[c].localStreamRef # 0
          /\ hook'[c].tracks[Len(hook'[c].tracks)].kind = hook[c].add.for )
          => C24_Added(c)]_vars

\* C24 (as stated): the toggle on a session that lacks the kind acquires only
\* the missing kind and ends with a session of both kinds in which the track
\* it had is the same, not stopped, enabled as before, by merge or by
\* replacement; when the acquisition fails, session and registry are as
\* before.
C24_AddsMissingTrack ==
  [][\A c \in Sharers :
        /\ AddCaptures(c) =>
              /\ Len(hook'[c].tracks) = Len(hook[c].tracks) + 1
              /\ hook'[c].tracks[Len(hook'[c].tracks)].kind = hook[c].add.for
        /\ (AddEnds(c) /\ AddCaptures(c) /\ hook[c].localStreamRef # 0) => C24_Added(c)
        /\ (AddEnds(c) /\ ~AddCaptures(c)) => C24_Unchanged(c)]_vars


\* ---------------------------------------------------------------- non-recoverable errors
Settles(e) ==
  \/ ExactSettles(e)
  \/ BasicSettles(e)
  \/ DetailedSettles(e)
  \/ SingleSettles(e)
  \/ LowerSettles(e)

\* C25: when a capture request fails with NotAllowedError or NotFoundError,
\* at any tier, no further capture request is issued and no backoff retry is
\* scheduled.
C25_DeniedEndsAcquisition ==
  [][\A e \in {"NotAllowedError", "NotFoundError"} :
        Settles(e) => (nReq' = nReq /\ pc' = "failed")]_vars


\* ---------------------------------------------------------------- mute flags
\* C26: in every state where the capture session has an audio track and the
\* local participant is registered, the track's enabled flag, isMicOn and the
\* local participant's audioEnabled are equal; likewise the video track's
\* enabled flag, isCameraOn and videoEnabled.
C26_FlagsMatchHardware ==
  \A c \in Clients :
    LET h == hook[c]
        a == AudioOf(h, h.localStreamRef)
        v == VideoOf(h, h.localStreamRef)
    IN (h.life = "mounted" /\ LocalEntries(h.participants) # {}) =>
         /\ a # 0 => /\ h.tracks[a].enabled = h.isMicOn
                     /\ h.isMicOn = LocalFlag(h, "audioEnabled")
         /\ v # 0 => /\ h.tracks[v].enabled = h.isCameraOn
                     /\ h.isCameraOn = LocalFlag(h, "videoEnabled")


\* ---------------------------------------------------------------- stale connection events
\* The Peer i of client c emits 'close' or 'error' in this step.
Closes(c, i) ==
  /\ i \in DOMAIN hook[c].peers
  /\ ~hook[c].peers[i].closed
  /\ i \in DOMAIN hook'[c].peers
  /\ hook'[c].peers[i].closed

\* The record of client c for the participant of its Peer i maps to another,
\* newer Peer.
Superseded(c, i) ==
  /\ i \in DOMAIN hook[c].peers
  /\ hook[c].peerConnections[hook[c].peers[i].peerId] \notin {0, i}

HasEntry(h, p) == \E k \in DOMAIN h.participants : h.participants[k].id = p

\* C27: a close or error event of a superseded connection to P neither
\* deletes the current record for P nor removes P's registry entry.
C27_StaleEventKeepsRecord ==
  [][\A c \in Clients : \A i \in 1..MaxRePeers :
        (Closes(c, i) /\ Superseded(c, i)) =>
           LET p == hook[c].peers[i].peerId
           IN /\ hook'[c].peerConnections[p] = hook[c].peerConnections[p]
              /\ HasEntry(hook[c], p) => HasEntry(hook'[c], p)]_vars


\* ---------------------------------------------------------------- reacquisition keeps choices
\* The step in which client c, whose session the liveness check had stopped,
\* installs the session of the reacquisition.
Reacquired(c) ==
  /\ hook[c].init = "pending"
  /\ hook[c].localStreamRef = 0
  /\ hook[c].participants # <<>>
  /\ hook'[c].localStreamRef # 0

\* The session the local participant was registered with.
OldSession(h) ==
  LET i == CHOOSE i \in LocalEntries(h.participants) : TRUE
  IN IF LocalEntries(h.participants) = {} THEN 0 ELSE h.participants[i].stream

\* The user had switched the kind off: the old session has a track of it,
\* disabled by a toggle.
SwitchedOff(h, t) == t # 0 /\ ~h.tracks[t].enabled

C28_ChoiceKept(c) ==
  LET h == hook'[c]
      a == AudioOf(h, h.localStreamRef)
      v == VideoOf(h, h.localStreamRef)
      old == OldSession(hook[c])
  IN /\ (SwitchedOff(hook[c], AudioOf(hook[c], old)) /\ a # 0) =>
           (~h.tracks[a].enabled /\ ~h.isMicOn /\ ~LocalFlag(h, "audioEnabled"))
     /\ (SwitchedOff(hook[c], VideoOf(hook[c], old)) /\ v # 0) =>
           (~h.tracks[v].enabled /\ ~h.isCameraOn /\ ~LocalFlag(h, "videoEnabled"))

C28_RegistryKept(c) ==
  \A p \in Clients : HasEntry(hook[c], p) => HasEntry(hook'[c], p)

C28_ChoicesPreserved ==
  [][\A c \in Sharers : Reacquired(c) => C28_ChoiceKept(c)]_vars

C28_RegistryPreserved ==
  [][\A c \in Sharers : Reacquired(c) => C28_RegistryKept(c)]_vars

\* C28: when the liveness check replaces the capture session, a kind the user
\* had disabled is still disabled afterwards (the new track's enabled flag,
\* isMicOn / isCameraOn and the local participant's flag), and the remote
\* participant entries present before are present after.
C28_ReacquisitionPreserves ==
  [][\A c \in Sharers :
        Reacquired(c) => (C28_ChoiceKept(c) /\ C28_RegistryKept(c))]_vars


\* ---------------------------------------------------------------- overlapping screen shares
\* The display captures of the hook whose track is live.
LiveDisplays(h) ==
  { s \in DOMAIN h.streams :
      h.streams[s].src = "screen" /\ h.tracks[h.streams[s].v].live }

\* No screen share is on, starting or stopping.
SharingStopped(h) ==
  /\ ~h.isScreenSharing /\ h.screenStream = 0
  /\ h.dispPending = <<>> /\ h.startPending = <<>> /\ h.stopPending = <<>>

\* C29: for every interleaving of toggleScreenShare calls the hook holds at
\* most one live display capture at a time, and once sharing has stopped
\* every display track obtained has been stopped.
C29_OneDisplayCapture ==
  \A c \in Sharers :
    /\ Cardinality(LiveDisplays(hook[c])) <= 1
    /\ SharingStopped(hook[c]) => LiveDisplays(hook[c]) = {}


\* ---------------------------------------------------------------- initialization settles
\* Every capture request settles, and the timers of the init effect and of
\* the backoff fire (lines 753-757, 777).
RequestsSettle ==
  /\ WF_vars(InitEffect)
  /\ WF_vars(\E e \in Outcomes : ExactSettles(e))
  /\ WF_vars(\E e \in Outcomes : BasicSettles(e))
  /\ WF_vars(\E e \in Outcomes : DetailedSettles(e))
  /\ WF_vars(\E e \in Outcomes : SingleSettles(e))
  /\ WF_vars(\E e \in Outcomes : LowerSettles(e))
  /\ WF_vars(RetryFires)

SpecAcqFair == AcqInit /\ [][AcqNext]_vars /\ RequestsSettle

\* initLocalStream has ended and no timer will run it again.
Settled == pc \in {"ready", "failed"}

\* C30: when every capture request settles, initialization terminates: the
\* hook reaches a state with isInitializing false and either a session and
\* no error, or an error and no retry pending; a retry is scheduled only by
\* the first two runs, and the counter of runs never decreases.
C30_InitializationSettles ==
  /\ [](~Settled => <>Settled)
  /\ [](pc = "ready" => (~isInitializing /\ acqStream # NoSession /\ acqError = "none"))
  /\ [](pc = "failed" => (~isInitializing /\ acqStream = NoSession /\ acqError # "none"))
  /\ [](pc = "backoff" => streamInitAttempts <= 2)
  /\ [][streamInitAttempts' >= streamInitAttempts]_vars

\* The final failure of the third run, after two backoff retries.
C30_Witness ==
  /\ pc = "failed" /\ streamInitAttempts = 3 /\ cycles = 0
  /\ ~isInitializing /\ acqError = "inuse"

====
